---- MODULE Spec2Model ----
(***************************************************************************)
(* Model of the portfolio agent: the tool registry (agent_tools.py), the   *)
(* provider adapter LLMPortfolioAgent._chat and the bounded tool-calling   *)
(* loop LLMPortfolioAgent.ask (portfolio_agent.py), and the HTTP route in  *)
(* front of the agent (fastapi_app.py).  Spec is one caller of ask and     *)
(* reset_conversation, SpecService the route, SpecTools the registry,      *)
(* SpecChat the adapter alone, SpecConcurrent two callers on one agent.    *)
(***************************************************************************)
EXTENDS Integers, Sequences, FiniteSets, TLC

(***************************************************************************)
(* Python values.  Every value is a record whose first field, kind, is its *)
(* type.  A Python str is either                                           *)
(*   kind "text": a string that is NOT a JSON document; val is the string  *)
(*                as a sequence of fragments (characters or longer         *)
(*                pieces), so <<>> is the empty string;                    *)
(*   kind "json": the string json.dumps(val) of the value val.             *)
(* A dict is a function from its keys (TLA+ strings) to values.            *)
(***************************************************************************)
PyNone == [kind |-> "none"]
PyInt(n) == [kind |-> "int", val |-> n]
PyText(s) == [kind |-> "text", val |-> s]
PyJson(v) == [kind |-> "json", val |-> v]
PyDict(f) == [kind |-> "dict", val |-> f]
PyList(s) == [kind |-> "list", val |-> s]
\* The floats that are not finite: float("inf") and float("nan"), which
\* json.loads yields for 1e999 or Infinity, and for NaN.
PyInf == [kind |-> "float", val |-> "inf"]
PyNaN == [kind |-> "float", val |-> "nan"]

EmptyDict == PyDict(<<>>)
EmptyList == PyList(<<>>)

\* isinstance(v, str)
IsStr(v) == v.kind \in {"text", "json"}

\* bool(v): Python truthiness.
Truthy(v) ==
    CASE v.kind = "none" -> FALSE
      [] v.kind = "int" -> v.val # 0
      [] v.kind = "text" -> v.val # <<>>
      [] v.kind = "json" -> TRUE
      [] v.kind = "dict" -> DOMAIN v.val # {}
      [] v.kind = "list" -> Len(v.val) > 0
      [] OTHER -> TRUE

\* The outcome of a call: a returned value or a raised exception.
Ok(v) == [raised |-> FALSE, val |-> v]
Raise(e, m) == [raised |-> TRUE, exc |-> e, msg |-> m]

\* json.loads(s) for a str s: the value a JSON document encodes, or
\* JSONDecodeError (which also covers the empty string).
json_loads(s) ==
    IF s.kind = "json" THEN Ok(s.val)
    ELSE Raise("JSONDecodeError", <<"Expecting value">>)

\* json.dumps(v): the JSON document of v.
json_dumps(v) == PyJson(v)

\* d.get(key, default)
dict_get(d, key, default) ==
    IF d.kind = "dict"
    THEN Ok(IF key \in DOMAIN d.val THEN d.val[key] ELSE default)
    ELSE Raise("AttributeError", <<"object has no attribute 'get'">>)

\* The dict key a value denotes when it is used as one.
KeyOf(v) == IF v.kind = "text" /\ Len(v.val) = 1 THEN v.val[1] ELSE "?"

\* str(v)
Str(v) ==
    CASE v.kind = "text" -> v.val
      [] v.kind = "none" -> <<"N", "o", "n", "e">>
      [] OTHER -> <<"<repr>">>

\* str.lower(), fragment by fragment.
LowerChar(c) ==
    CASE c = "P" -> "p"
      [] c = "B" -> "b"
      [] c = "N" -> "n"
      [] OTHER -> c

Lower(s) == [i \in 1..Len(s) |-> LowerChar(s[i])]

\* k in h for two strings.
IsSubstring(k, h) ==
    \E i \in 0..(Len(h) - Len(k)) : SubSeq(h, i + 1, i + Len(k)) = k

\* x in data, for the key "error".
HasError(data) ==
    CASE data.kind = "dict" -> Ok("error" \in DOMAIN data.val)
      [] data.kind = "list" ->
            Ok(\E i \in 1..Len(data.val) : data.val[i] = PyText(<<"error">>))
      [] data.kind = "text" -> Ok(IsSubstring(<<"error">>, data.val))
      [] OTHER -> Raise("TypeError", <<"argument of type is not iterable">>)

(***************************************************************************)
(* The document file and PortfolioTools (agent_tools.py).  The file is     *)
(* read again by every tool call.                                          *)
(***************************************************************************)
DataPath == "portfolio_data.json"

Project(n, s) == PyDict("name" :> PyText(n) @@ "summary" :> PyText(s))

Projects ==
    PyList(<< Project(<<"a">>, <<"P", "B">>),
              Project(<<"b">>, <<"x">>),
              Project(<<"p", "b">>, <<"y">>) >>)

DocOk ==
    PyDict("profile" :> PyDict("about" :> PyText(<<"Data scientist.">>))
        @@ "projects" :> Projects)

FileMissing == [exists |-> FALSE, content |-> PyText(<<>>)]
FileOk == [exists |-> TRUE, content |-> json_dumps(DocOk)]
FileCorrupt == [exists |-> TRUE, content |-> PyText(<<"{">>)]
FileList == [exists |-> TRUE, content |-> json_dumps(PyList(<<PyInt(1)>>))]

Files == {FileMissing, FileOk, FileCorrupt, FileList}

_load_data(file) ==
    IF ~file.exists
    THEN Ok(PyDict("error" :>
                PyText(<<"Portfolio data file not found: ", DataPath>>)))
    ELSE json_loads(file.content)

_dump(data) == json_dumps(data)

_get_section(file, section) ==
    LET data == _load_data(file) IN
    IF data.raised THEN data
    ELSE LET err == HasError(data.val) IN
         IF err.raised THEN err
         ELSE IF err.val THEN Ok(_dump(data.val))
         ELSE LET sec == dict_get(data.val, KeyOf(section), EmptyList) IN
              IF sec.raised THEN sec ELSE Ok(_dump(sec.val))

Min(a, b) == IF a < b THEN a ELSE b

DefaultLimit == 10
MaxLimit == 50

\* int(limit): a str converts when it is the decimal text of an integer.
ToInt(limit) ==
    CASE limit.kind = "int" -> Ok(limit.val)
      [] limit.kind = "json" /\ limit.val.kind = "int" -> Ok(limit.val.val)
      [] limit.kind \in {"text", "json"} ->
            Raise("ValueError", <<"invalid literal for int()">>)
      [] limit.kind = "float" /\ limit.val = "inf" ->
            Raise("OverflowError", <<"cannot convert float infinity to integer">>)
      [] limit.kind = "float" ->
            Raise("ValueError", <<"cannot convert float NaN to integer">>)
      [] OTHER -> Raise("TypeError", <<"int() argument must be a number">>)

\* The try block of _sanitize_limit catches TypeError and ValueError only.
_sanitize_limit(limit, default, max_limit) ==
    IF limit.kind = "none" THEN Ok(default)
    ELSE LET limit_int == ToInt(limit) IN
         IF limit_int.raised
         THEN IF limit_int.exc \in {"TypeError", "ValueError"}
              THEN Ok(default) ELSE limit_int
         ELSE IF limit_int.val <= 0 THEN Ok(default)
         ELSE IF max_limit.kind # "int" THEN Ok(default)
         ELSE Ok(PyInt(Min(limit_int.val, max_limit.val)))

get_about(file) ==
    LET data == _load_data(file) IN
    IF data.raised THEN data
    ELSE LET err == HasError(data.val) IN
         IF err.raised THEN err
         ELSE IF err.val THEN Ok(_dump(data.val))
         ELSE LET profile == dict_get(data.val, "profile", EmptyDict) IN
              IF profile.raised THEN profile
              ELSE LET about == dict_get(profile.val, "about", PyNone) IN
                   IF about.raised THEN about
                   ELSE Ok(_dump(PyDict("about" :> about.val)))

\* " ".join([str(project.get("name", "")), str(project.get("summary", ""))]).lower()
Haystack(project) ==
    Lower(Str(dict_get(project, "name", PyText(<<>>)).val) \o <<" ">>
          \o Str(dict_get(project, "summary", PyText(<<>>)).val))

\* The matches list after the loop over the first n projects.
RECURSIVE Matches(_, _, _)
Matches(projects, keyword_lower, n) ==
    IF n = 0 THEN <<>>
    ELSE LET rest == Matches(projects, keyword_lower, n - 1) IN
         IF IsSubstring(keyword_lower, Haystack(projects[n]))
         THEN Append(rest, projects[n])
         ELSE rest

\* for project in projects: the items the loop visits.
Iterate(v) ==
    CASE v.kind = "list" -> Ok(v.val)
      [] v.kind = "dict" /\ DOMAIN v.val = {} -> Ok(<<>>)
      [] v.kind = "dict" -> Ok(<<PyText(<<"key">>)>>)
      [] v.kind = "text" -> Ok([i \in 1..Len(v.val) |-> PyText(<<v.val[i]>>)])
      [] OTHER -> Raise("TypeError", <<"object is not iterable">>)

\* Mutant: the empty keyword is searched for like any other.
SearchAnyKeyword(file, keyword, limit) ==
    LET data == _load_data(file) IN
    IF data.raised THEN data
    ELSE LET err == HasError(data.val) IN
         IF err.raised THEN err
         ELSE IF err.val THEN Ok(_dump(data.val))
         ELSE IF keyword.kind # "text"
              THEN Raise("AttributeError", <<"object has no attribute 'lower'">>)
         ELSE LET projects == dict_get(data.val, "projects", EmptyList) IN
              IF projects.raised THEN projects
              ELSE LET items == Iterate(projects.val) IN
                   IF items.raised THEN items
                   ELSE Ok(_dump(PyList(Matches(items.val, Lower(keyword.val),
                                                Len(items.val)))))

search_projects(file, keyword, limit) ==
    LET data == _load_data(file) IN
    IF data.raised THEN data
    ELSE LET err == HasError(data.val) IN
         IF err.raised THEN err
         ELSE IF err.val THEN Ok(_dump(data.val))
         ELSE IF ~Truthy(keyword)
              THEN Ok(_dump(PyDict("error" :> PyText(<<"Keyword is required.">>))))
         ELSE IF keyword.kind # "text"
              THEN Raise("AttributeError", <<"object has no attribute 'lower'">>)
         ELSE LET projects == dict_get(data.val, "projects", EmptyList) IN
              IF projects.raised THEN projects
              ELSE LET items == Iterate(projects.val) IN
                   IF items.raised THEN items
                   ELSE IF \E i \in 1..Len(items.val) : items.val[i].kind # "dict"
                        THEN Raise("AttributeError", <<"object has no attribute 'get'">>)
                   ELSE LET matches == Matches(items.val, Lower(keyword.val),
                                               Len(items.val))
                            lim == _sanitize_limit(limit, PyInt(DefaultLimit),
                                                   PyInt(MaxLimit))
                        IN IF lim.raised THEN lim
                           ELSE Ok(_dump(PyList(SubSeq(matches, 1,
                                        Min(lim.val.val, Len(matches))))))

(***************************************************************************)
(* get_tool_definitions (agent_tools.py): the names of the nine            *)
(* descriptors published to the model.                                     *)
(***************************************************************************)
SectionTools ==
    {"get_profile", "get_contact", "get_links", "get_education",
     "get_skills", "get_experience", "get_projects"}

get_tool_definitions == SectionTools \cup {"get_about", "search_projects"}

\* The section a section tool passes to _get_section.
SectionOf(name) ==
    CASE name = "get_profile" -> "profile"
      [] name = "get_contact" -> "contact"
      [] name = "get_links" -> "links"
      [] name = "get_education" -> "education"
      [] name = "get_skills" -> "skills"
      [] name = "get_experience" -> "experience"
      [] OTHER -> "projects"

(***************************************************************************)
(* The attributes of a PortfolioTools object that getattr can resolve:     *)
(* its public tools, its helper methods and its data_path field.           *)
(***************************************************************************)
HelperMethods == {"_load_data", "_dump", "_get_section", "_sanitize_limit"}
Methods == get_tool_definitions \cup HelperMethods
Fields == {"data_path"}

\* The parameters of each method: required ones and those with a default.
Required(name) ==
    CASE name = "search_projects" -> {"keyword"}
      [] name = "_dump" -> {"data"}
      [] name = "_get_section" -> {"section"}
      [] name = "_sanitize_limit" -> {"limit"}
      [] OTHER -> {}

Optional(name) ==
    CASE name = "search_projects" -> {"limit"}
      [] name = "_sanitize_limit" -> {"default", "max_limit"}
      [] OTHER -> {}

\* args[key] when the call passes it, else the parameter's default.
Arg(args, key, default) == IF key \in DOMAIN args THEN args[key] ELSE default

\* The body of the method name run with the keyword arguments args.
RunMethod(file, name, args) ==
    CASE name \in SectionTools -> _get_section(file, PyText(<<SectionOf(name)>>))
      [] name = "get_about" -> get_about(file)
      [] name = "search_projects" ->
            search_projects(file, args["keyword"],
                            Arg(args, "limit", PyInt(DefaultLimit)))
      [] name = "_load_data" -> _load_data(file)
      [] name = "_dump" -> Ok(_dump(args["data"]))
      [] name = "_get_section" -> _get_section(file, args["section"])
      [] OTHER ->
            _sanitize_limit(args["limit"],
                            Arg(args, "default", PyInt(DefaultLimit)),
                            Arg(args, "max_limit", PyInt(MaxLimit)))

\* tool_method(**args) for the attribute called name.
CallAttribute(file, name, args) ==
    IF args.kind # "dict"
    THEN Raise("TypeError", <<"argument after ** must be a mapping">>)
    ELSE IF name \in Fields
    THEN Raise("TypeError", <<"object is not callable">>)
    ELSE IF ~(DOMAIN args.val \subseteq Required(name) \cup Optional(name))
    THEN Raise("TypeError", <<name, "() got an unexpected keyword argument">>)
    ELSE IF ~(Required(name) \subseteq DOMAIN args.val)
    THEN Raise("TypeError", <<name, "() missing a required argument">>)
    ELSE RunMethod(file, name, args.val)

(***************************************************************************)
(* LLMPortfolioAgent._execute_tool (portfolio_agent.py).                   *)
(***************************************************************************)
\* getattr(self.tools, tool_name, None) is truthy.
Resolves(tool_name) == tool_name \in Methods \cup Fields

ErrorPayload(msg) == json_dumps(PyDict("error" :> PyText(msg)))

\* Mutant: the arguments are first replaced by the raw-string fallback of ask.
ExecuteToolWithFallback(file, tool_name, arguments) ==
    LET args == IF IsStr(arguments) /\ ~json_loads(arguments).raised
                THEN json_loads(arguments).val
                ELSE IF IsStr(arguments) THEN PyDict("raw_arguments" :> arguments)
                ELSE arguments
    IN IF ~Resolves(tool_name)
       THEN [invoked |-> FALSE,
             result |-> ErrorPayload(<<"Tool ", tool_name, " not found">>)]
       ELSE LET result == CallAttribute(file, tool_name, args) IN
            [invoked |-> TRUE, args |-> args, outcome |-> result,
             result |-> IF result.raised
                        THEN ErrorPayload(<<"Error executing ", tool_name, ": ">>
                                          \o result.msg)
                        ELSE result.val]

\* One run of _execute_tool: whether line 344 (the call of the resolved
\* attribute) was reached, with which arguments and with which outcome (a
\* value returned to _execute_tool or an exception raised to it), and the
\* value _execute_tool returned.
ExecuteTool(file, tool_name, arguments) ==
    LET args == IF IsStr(arguments) THEN json_loads(arguments) ELSE Ok(arguments) IN
    IF args.raised
    THEN [invoked |-> FALSE,
          result |-> ErrorPayload(<<"Error executing ", tool_name, ": ">> \o args.msg)]
    ELSE IF ~Resolves(tool_name)
    THEN [invoked |-> FALSE,
          result |-> ErrorPayload(<<"Tool ", tool_name, " not found">>)]
    ELSE LET result == CallAttribute(file, tool_name, args.val) IN
         [invoked |-> TRUE, args |-> args.val, outcome |-> result,
          result |-> IF result.raised
                     THEN ErrorPayload(<<"Error executing ", tool_name, ": ">>
                                       \o result.msg)
                     ELSE result.val]

_execute_tool(file, tool_name, arguments) ==
    ExecuteTool(file, tool_name, arguments).result

(***************************************************************************)
(* The model backend.  A native response is what the client library hands  *)
(* to _chat; the model is free to answer any of them on any call.          *)
(***************************************************************************)
\* d.get(key, default) on a message or tool call with optional keys.
Get(d, key, default) == IF key \in DOMAIN d THEN d[key] ELSE default

Answer == PyText(<<"answer">>)

\* Tool calls as the model may request them; with_id tells whether the
\* backend attaches a call id, type is the native call type.
Call(name, arguments) ==
    [with_id |-> TRUE, type |-> "function",
     function |-> [name |-> name, arguments |-> arguments]]

NoId(call) == [call EXCEPT !.with_id = FALSE]

SearchArgs == PyDict("keyword" :> PyText(<<"P", "b">>) @@ "limit" :> PyInt(1))
Malformed == PyText(<<"{">>)

\* The argument payloads per request, as native structured values.
AboutCall == Call("get_about", EmptyDict)
SearchCall == Call("search_projects", SearchArgs)
UnknownCall == Call("no_such_tool", EmptyDict)
HelperCall == Call("_sanitize_limit", PyDict("limit" :> PyInt(5)))
MisfitCall == Call("get_about", PyDict("x" :> PyInt(1)))
RaisingCall == Call("search_projects", PyDict("keyword" :> PyInt(5)))
MalformedCall == Call("get_projects", Malformed)

\* The same request with its arguments as a JSON document (a str).
Encoded(call) ==
    IF IsStr(call.function.arguments) THEN call
    ELSE [call EXCEPT !.function.arguments = json_dumps(@)]

EncodedAll(calls) == [i \in 1..Len(calls) |-> Encoded(calls[i])]
NoIdAll(calls) == [i \in 1..Len(calls) |-> NoId(calls[i])]

ToolCallLists ==
    { <<AboutCall>>,
      <<MalformedCall, SearchCall>>,
      <<UnknownCall, HelperCall>>,
      <<MisfitCall, RaisingCall>> }

\* The hosted backend sends arguments as JSON strings and always an id; it
\* may also send a call that is not a function call.  The local backend
\* sends native arguments (or a string) and may leave the id out.
NativeToolCalls(provider) ==
    IF provider = "openai"
    THEN { EncodedAll(l) : l \in ToolCallLists }
            \cup { <<[AboutCall EXCEPT !.type = "custom"]>> }
    ELSE { NoIdAll(l) : l \in ToolCallLists }
            \cup { <<AboutCall, Encoded(SearchCall)>> }

\* The id the backend gives the i-th tool call of its n-th response.
BackendId(n, i) == <<"tc", n, i>>

Stamp(calls, n) ==
    [i \in 1..Len(calls) |->
        IF calls[i].with_id
        THEN [id |-> BackendId(n, i), type |-> calls[i].type,
              function |-> calls[i].function]
        ELSE [type |-> calls[i].type, function |-> calls[i].function]]

NativeContents == {PyNone, PyText(<<>>), Answer}

\* The native messages the backend can return on its n-th call of an ask.
\* When tools is FALSE (tools=None) the backend cannot request tool calls.
\* The local backend may leave the content key out altogether.
NativeMessages(provider, n, tools) ==
    { [role |-> "assistant", content |-> c] : c \in NativeContents }
    \cup (IF provider = "ollama" THEN { [role |-> "assistant"] } ELSE {})
    \cup (IF tools
          THEN { [role |-> "assistant", content |-> PyText(<<>>),
                  tool_calls |-> Stamp(l, n)] : l \in NativeToolCalls(provider) }
          ELSE {})

\* The usage object of a hosted response: its counters are attributes, and
\* a counter the backend does not report is an attribute it has not.
PyUsage(f) == [kind |-> "usage", val |-> f]
ReportedUsage ==
    PyUsage([prompt_tokens |-> PyInt(3), completion_tokens |-> PyInt(2),
             total_tokens |-> PyInt(5)])
NativeUsages ==
    {PyNone, ReportedUsage, PyUsage([prompt_tokens |-> PyInt(3)])}

\* The native response around a native message in the loop: the hosted
\* backend reports usage, the local one has no such key.
BackendResponse(provider, msg) ==
    IF provider = "openai" THEN [message |-> msg, usage |-> ReportedUsage]
    ELSE [message |-> msg]

(***************************************************************************)
(* LLMPortfolioAgent._chat: one backend call, reshaped to                  *)
(* {"message": {...}, "usage": {...}}.                                     *)
(***************************************************************************)
\* getattr(obj, name, None)
GetAttr(obj, name) == IF name \in DOMAIN obj.val THEN obj.val[name] ELSE PyNone

\* The tool calls of an OpenAI message whose type is "function".
RECURSIVE FunctionCalls(_)
FunctionCalls(tcs) ==
    IF tcs = <<>> THEN <<>>
    ELSE LET tc == Head(tcs) IN
         IF tc.type # "function" THEN FunctionCalls(Tail(tcs))
         ELSE <<[id |-> tc.id, type |-> tc.type,
                 function |-> [name |-> tc.function.name,
                               arguments |-> tc.function.arguments]]>>
              \o FunctionCalls(Tail(tcs))

NormContent(c) == IF Truthy(c) THEN c ELSE PyText(<<>>)

_chat(provider, resp) ==
    IF provider = "ollama" THEN resp
    ELSE LET msg == resp.message
             norm == [role |-> msg.role, content |-> NormContent(msg.content)]
             tool_calls == FunctionCalls(Get(msg, "tool_calls", <<>>))
             usage == Get(resp, "usage", PyNone)
             norm_usage ==
                IF usage.kind = "none" THEN PyNone
                ELSE PyDict([input_tokens |-> GetAttr(usage, "prompt_tokens"),
                             output_tokens |-> GetAttr(usage, "completion_tokens"),
                             total_tokens |-> GetAttr(usage, "total_tokens")])
         IN [message |-> IF tool_calls # <<>>
                         THEN [role |-> norm.role, content |-> norm.content,
                               tool_calls |-> tool_calls]
                         ELSE norm,
             usage |-> norm_usage]

(***************************************************************************)
(* LLMPortfolioAgent: the agent object and one caller that runs ask and    *)
(* reset_conversation one after the other.                                 *)
(***************************************************************************)
MaxIterations == 2
MaxAsks == 2

\* The providers _chat has a branch for, and one it has none for.
SupportedProviders == {"ollama", "openai"}
Providers == SupportedProviders \cup {"other"}
\* The query text is opaque to ask; the k-th query of the caller is its own
\* text, so that the turns of different asks can be told apart.
Queries(k) == { CASE k = 1 -> "q1" [] k = 2 -> "q2" [] OTHER -> "q3" }
\* max_iterations is an unvalidated int of the caller (fastapi_app.py: AskRequest).
IterationChoices == -1..MaxIterations

SystemPrompt == PyText(<<"You are the portfolio assistant">>)
FinalInstruction ==
    PyText(<<"Please provide your final answer based on the information gathered so far.">>)
Fallback == PyText(<<"I need more information to provide a complete answer.">>)
Note == "Reached max iterations"

NoCall == [n |-> 0]
NoResult == [returned |-> FALSE]
NoResponse == [message |-> [role |-> "none"]]
NoDispatch == [invoked |-> FALSE, tool |-> "", arguments |-> PyNone, result |-> PyNone]
NoFault == [raised |-> FALSE]
NoCallers == <<>>
NoRequest == [pending |-> FALSE]
NoNative == [message |-> [role |-> "none"]]

\* The exceptions a client library raises when a backend call fails.
BackendFaults ==
    { Raise("APIConnectionError", <<"Connection error.">>),
      Raise("AuthenticationError", <<"Incorrect API key provided: ", "sk-live">>) }

VARIABLES
    provider,               \* self.provider
    file,                   \* the document file behind self.tools
    conversation_history,   \* self.conversation_history
    pc,                     \* where the caller is: "idle", inside ask, "returned", "raised"
    query,                  \* ask's parameter
    asks,                   \* number of ask calls started so far
    max_iterations,         \* ask's parameter
    iteration,              \* the loop variable of ask
    messages,               \* ask's local transcript
    tool_calls,             \* the tool calls of the response still to dispatch
    tool_calls_made,        \* ask's local trace
    last_tool_result,       \* ask's local last_tool_result
    n_calls,                \* backend calls made by the running ask
    last_call,              \* what the backend received on the latest call
    response,               \* what _chat returned on the latest call
    last_dispatch,          \* the latest run of _execute_tool
    history_at_entry,       \* conversation_history when the running ask was entered
    result,                 \* what the latest ask returned
    fault,                  \* the exception that left the latest ask, with its call
    http_request,           \* the HTTP request that ask_agent is serving
    http_responses,         \* the HTTP responses sent so far
    usage_log,              \* ask's local usage_log
    native_response,        \* the backend response handed to the adapter alone
    callers,                \* the callers that share the agent concurrently
    overlapped,             \* some call ran while another ask was in progress
    incomplete              \* some ask of the concurrent callers raised

vars ==
    <<provider, file, conversation_history, pc, query, asks, max_iterations,
      iteration, messages, tool_calls, tool_calls_made, last_tool_result,
      n_calls, last_call, response, last_dispatch, history_at_entry, result,
      fault, http_request, http_responses, usage_log, native_response,
      callers, overlapped, incomplete>>

Init ==
    /\ provider \in Providers
    /\ file \in Files
    /\ conversation_history = <<>>
    /\ pc = "idle"
    /\ query = ""
    /\ asks = 0
    /\ max_iterations = 0
    /\ iteration = 0
    /\ messages = <<>>
    /\ tool_calls = <<>>
    /\ tool_calls_made = <<>>
    /\ last_tool_result = PyNone
    /\ n_calls = 0
    /\ last_call = NoCall
    /\ response = NoResponse
    /\ last_dispatch = NoDispatch
    /\ history_at_entry = <<>>
    /\ result = NoResult
    /\ fault = NoFault
    /\ http_request = NoRequest
    /\ http_responses = <<>>
    /\ usage_log = <<>>
    /\ native_response = NoNative
    /\ callers = NoCallers
    /\ overlapped = FALSE
    /\ incomplete = FALSE

\* Mutant: the loop runs one iteration too many.
LoopHeadInclusive(i, max) == IF i <= max THEN "chat" ELSE "final"

\* for iteration in range(max_iterations): the loop body runs again, or the
\* loop is over and the forced final call follows.
LoopHead(i, max) == IF i < max THEN "chat" ELSE "final"

UserTurn(q) == [role |-> "user", content |-> PyText(<<q>>)]
AssistantTurn(final_answer) == [role |-> "assistant", content |-> final_answer]

\* Mutant: the answer is put in front of the history.
PersistInFront(history, final_answer) ==
    <<AssistantTurn(final_answer)>> \o history

\* Mutant: the final instruction is persisted with the answer.
PersistWithInstruction(history, final_answer) ==
    history \o <<[role |-> "system", content |-> FinalInstruction],
                 AssistantTurn(final_answer)>>

\* Mutant: an answer without content is not persisted.
PersistNonEmpty(history, final_answer) ==
    IF Truthy(final_answer) THEN Append(history, AssistantTurn(final_answer))
    ELSE history

\* ask, lines 271-274 and 314-317: the answer becomes the assistant turn.
Persist(history, final_answer) == Append(history, AssistantTurn(final_answer))

\* Mutant: the transcript starts from the latest turn only.
TranscriptOfLatestTurn(history) ==
    <<[role |-> "system", content |-> SystemPrompt], history[Len(history)]>>

\* ask, lines 155-158: the system prompt, then every persisted turn.
Transcript(history) ==
    <<[role |-> "system", content |-> SystemPrompt]>> \o history

\* ask, lines 153-164: append the user turn, build the transcript.
AskEntry(query_, max) ==
    /\ pc \in {"idle", "returned", "raised"}
    /\ asks < MaxAsks
    /\ asks' = asks + 1
    /\ query' = query_
    /\ history_at_entry' = conversation_history
    /\ conversation_history' =
            Append(conversation_history, UserTurn(query_))
    /\ messages' = Transcript(conversation_history')
    /\ max_iterations' = max
    /\ iteration' = 0
    /\ tool_calls' = <<>>
    /\ tool_calls_made' = <<>>
    /\ last_tool_result' = PyNone
    /\ n_calls' = 0
    /\ last_call' = NoCall
    /\ response' = NoResponse
    /\ last_dispatch' = NoDispatch
    /\ result' = NoResult
    /\ fault' = NoFault
    /\ usage_log' = <<>>
    /\ pc' = LoopHead(0, max)
    /\ UNCHANGED <<native_response, callers, overlapped, incomplete,
                   provider, file>>

\* ask called by a caller in the same process.
Ask(query_, max) ==
    /\ AskEntry(query_, max)
    /\ UNCHANGED <<http_request, http_responses>>

\* ask, lines 173-179 and 295-300: the usage of a call, when reported, is
\* logged under the number of the call.
LogUsage(log, number, llm_usage) ==
    IF llm_usage.kind = "none" THEN log
    ELSE Append(log, [iteration |-> number] @@ llm_usage.val)

\* ask, lines 171-194 and 265-284: one model call of the loop; a response
\* without tool calls is the final answer.
Chat(msg) ==
    /\ pc = "chat"
    /\ provider \in SupportedProviders
    /\ LET chat_response == _chat(provider, BackendResponse(provider, msg))
           llm_usage == Get(chat_response, "usage", PyNone)
           message == Get(chat_response, "message", <<>>)
           requested == Get(message, "tool_calls", <<>>)
       IN /\ n_calls' = n_calls + 1
          /\ usage_log' = LogUsage(usage_log, iteration + 1, llm_usage)
          /\ last_call' = [n |-> n_calls + 1, messages |-> messages, tools |-> TRUE]
          /\ response' = chat_response
          /\ IF requested # <<>>
             THEN /\ tool_calls' = requested
                  /\ pc' = "tools"
                  /\ UNCHANGED <<conversation_history, result>>
             ELSE LET final_answer == Get(message, "content", PyText(<<>>)) IN
                  /\ conversation_history' =
                        Persist(conversation_history, final_answer)
                  /\ result' = [returned |-> TRUE, answer |-> final_answer,
                                tool_calls_made |-> tool_calls_made,
                                iterations |-> iteration + 1,
                                tool_result |-> last_tool_result,
                                usage_log |-> usage_log']
                  /\ pc' = "returned"
                  /\ UNCHANGED tool_calls
    /\ UNCHANGED <<native_response, callers, overlapped, incomplete,
                   provider, file, query, asks, max_iterations, iteration,
                   messages, tool_calls_made, last_tool_result, last_dispatch,
                   history_at_entry, fault, http_request, http_responses>>

\* ask, lines 220-226: the arguments as a structured value.
ParsedArgs(tool_args) ==
    IF IsStr(tool_args)
    THEN LET parsed == json_loads(tool_args) IN
         IF parsed.raised THEN PyDict("raw_arguments" :> tool_args) ELSE parsed.val
    ELSE tool_args

\* ask, lines 230-237: the arguments as the provider wants them replayed.
ArgumentsForMessage(prov, tool_args) ==
    IF prov = "openai"
    THEN IF IsStr(tool_args) THEN tool_args ELSE json_dumps(ParsedArgs(tool_args))
    ELSE ParsedArgs(tool_args)

\* ask, line 239.
ToolCallId(tool_call, i) == Get(tool_call, "id", <<"call_", i>>)

\* ask, lines 241-252: the synthetic assistant message of one tool call.
RequestMessage(prov, tool_call, i) ==
    [role |-> "assistant", content |-> PyText(<<>>),
     tool_calls |-> <<[id |-> ToolCallId(tool_call, i), type |-> "function",
                       function |->
                           [name |-> tool_call.function.name,
                            arguments |->
                                ArgumentsForMessage(prov, tool_call.function.arguments)]]>>]

\* Mutant: the tool message is always given the fallback id.
ResultMessageFallbackId(tool_call, i, tool_result) ==
    [role |-> "tool", tool_call_id |-> <<"call_", i>>,
     name |-> tool_call.function.name, content |-> tool_result]

\* ask, lines 255-260: the tool message carrying the result.
ResultMessage(tool_call, i, tool_result) ==
    [role |-> "tool", tool_call_id |-> ToolCallId(tool_call, i),
     name |-> tool_call.function.name, content |-> tool_result]

\* Mutant: the loop over the tool calls starts at the far end.
NextToolCallFromEnd(tcs) == tcs[Len(tcs)]

\* ask, line 196: the for loop takes the tool calls in list order.
NextToolCall(tcs) == Head(tcs)

\* ask, lines 196-263: dispatch the next tool call of the response; after the
\* last one the loop continues with the next iteration.
DispatchTool ==
    /\ pc = "tools"
    /\ LET tool_call == NextToolCall(tool_calls)
           tool_name == tool_call.function.name
           tool_args == tool_call.function.arguments
           run == ExecuteTool(file, tool_name, tool_args)
           tool_result == _execute_tool(file, tool_name, tool_args)
       IN /\ last_dispatch' = [run EXCEPT !.result = tool_result]
                                @@ [tool |-> tool_name, arguments |-> tool_args]
          /\ last_tool_result' = tool_result
          /\ tool_calls_made' =
                Append(tool_calls_made, [tool |-> tool_name, args |-> tool_args])
          /\ messages' = messages \o <<RequestMessage(provider, tool_call, iteration),
                                        ResultMessage(tool_call, iteration, tool_result)>>
    /\ tool_calls' = Tail(tool_calls)
    /\ IF tool_calls' = <<>>
       THEN /\ iteration' = iteration + 1
            /\ pc' = LoopHead(iteration + 1, max_iterations)
       ELSE UNCHANGED <<iteration, pc>>
    /\ UNCHANGED <<usage_log, native_response, callers, overlapped, incomplete,
                   provider, file, conversation_history, query, asks,
                   max_iterations, n_calls, last_call, response,
                   history_at_entry, result, fault, http_request, http_responses>>

\* ask, lines 309-312: the answer taken from the forced final response.
FinalAnswer(final_response) ==
    Get(Get(final_response, "message", <<>>), "content", Fallback)

\* Mutant: the forced final call still offers the tool catalog.
FinalCallWithTools(n, transcript) ==
    [n |-> n,
     messages |-> Append(transcript, [role |-> "system", content |-> FinalInstruction]),
     tools |-> TRUE]

\* ask, lines 287-293: what the forced final call sends to the backend.
FinalCall(n, transcript) ==
    [n |-> n,
     messages |-> Append(transcript, [role |-> "system", content |-> FinalInstruction]),
     tools |-> FALSE]

\* ask, lines 286-327: the forced final call, without tools, and the return.
FinalChat(msg) ==
    /\ pc = "final"
    /\ provider \in SupportedProviders
    /\ LET final_response == _chat(provider, BackendResponse(provider, msg))
           final_usage == Get(final_response, "usage", PyNone)
           final_answer == FinalAnswer(final_response)
       IN /\ n_calls' = n_calls + 1
          /\ usage_log' = LogUsage(usage_log, max_iterations + 1, final_usage)
          /\ last_call' = FinalCall(n_calls + 1, messages)
          /\ response' = final_response
          /\ conversation_history' =
                Persist(conversation_history, final_answer)
          /\ result' = [returned |-> TRUE, answer |-> final_answer,
                        tool_calls_made |-> tool_calls_made,
                        iterations |-> max_iterations,
                        usage_log |-> usage_log',
                        note |-> Note]
    /\ pc' = "returned"
    /\ UNCHANGED <<native_response, callers, overlapped, incomplete,
                   provider, file, query, asks, max_iterations, iteration,
                   messages, tool_calls, tool_calls_made, last_tool_result,
                   last_dispatch, history_at_entry, fault, http_request,
                   http_responses>>

\* Mutant: the reset keeps the latest turn.
ResetKeepsLatestTurn ==
    /\ pc \in {"idle", "returned", "raised"}
    /\ Len(conversation_history) > 1
    /\ conversation_history' = <<conversation_history[Len(conversation_history)]>>
    /\ pc' = "idle"
    /\ UNCHANGED <<usage_log, native_response, callers, overlapped, incomplete,
                   provider, file, query, asks, max_iterations, iteration,
                   messages, tool_calls, tool_calls_made, last_tool_result,
                   n_calls, last_call, response, last_dispatch,
                   history_at_entry, result, fault, http_request, http_responses>>

\* reset_conversation, lines 350-352.
reset_conversation ==
    /\ pc \in {"idle", "returned", "raised"}
    /\ conversation_history # <<>>
    /\ conversation_history' = <<>>
    /\ pc' = "idle"
    /\ UNCHANGED <<usage_log, native_response, callers, overlapped, incomplete,
                   provider, file, query, asks, max_iterations, iteration,
                   messages, tool_calls, tool_calls_made, last_tool_result,
                   n_calls, last_call, response, last_dispatch,
                   history_at_entry, result, fault, http_request, http_responses>>

\* Mutant: a failed backend call is tried again.
OnFaultRetry(at) == at

\* ask has no handler around self._chat (lines 171 and 287): an exception
\* raised there leaves ask.
OnFault(at) == "raised"

\* _chat, lines 84-102: the backend call of the loop or the forced final
\* call raises.
BackendFault(e) ==
    /\ pc \in {"chat", "final"}
    /\ provider \in SupportedProviders
    /\ n_calls' = n_calls + 1
    /\ last_call' = IF pc = "chat"
                    THEN [n |-> n_calls + 1, messages |-> messages, tools |-> TRUE]
                    ELSE FinalCall(n_calls + 1, messages)
    /\ fault' = [e EXCEPT !.raised = TRUE] @@ [call |-> n_calls + 1]
    /\ pc' = OnFault(pc)
    /\ UNCHANGED <<usage_log, native_response, callers, overlapped, incomplete,
                   provider, file, conversation_history, query, asks,
                   max_iterations, iteration, messages, tool_calls,
                   tool_calls_made, last_tool_result, response, last_dispatch,
                   history_at_entry, result, http_request, http_responses>>

\* _chat, lines 143-145: no branch for self.provider, before any backend call.
UnsupportedProvider ==
    /\ pc \in {"chat", "final"}
    /\ provider \notin SupportedProviders
    /\ fault' = Raise("ValueError", <<"Unsupported provider: ", provider>>)
                    @@ [call |-> n_calls]
    /\ pc' = OnFault(pc)
    /\ UNCHANGED <<usage_log, native_response, callers, overlapped, incomplete,
                   provider, file, conversation_history, query, asks,
                   max_iterations, iteration, messages, tool_calls,
                   tool_calls_made, last_tool_result, n_calls, last_call,
                   response, last_dispatch, history_at_entry, result, http_request,
                   http_responses>>

Next ==
    \/ \E q \in Queries(asks + 1), max \in IterationChoices : Ask(q, max)
    \/ \E msg \in NativeMessages(provider, n_calls + 1, TRUE) : Chat(msg)
    \/ DispatchTool
    \/ \E msg \in NativeMessages(provider, n_calls + 1, FALSE) : FinalChat(msg)
    \/ \E e \in BackendFaults : BackendFault(e)
    \/ UnsupportedProvider
    \/ reset_conversation

Spec == Init /\ [][Next]_vars

(***************************************************************************)
(* The service boundary (fastapi_app.py): one agent of the hosted provider, *)
(* built when the module is loaded, serves the requests one at a time.     *)
(***************************************************************************)
INTERNAL_TOKEN == PyText(<<"secret">>)

\* The X-Internal-Auth header of a request: absent (None), the token, or
\* another string.
Headers == {PyNone, INTERNAL_TOKEN, PyText(<<"guess">>)}

\* raise HTTPException(status_code, detail): the response FastAPI sends.
HTTPException(status_code, detail) ==
    [status_code |-> status_code, body |-> PyDict("detail" :> detail)]

\* verify_internal_auth, lines 84-89.  No route depends on it: the decorator
\* that names it is commented out (line 92).
verify_internal_auth(x_internal_auth) ==
    IF x_internal_auth # INTERNAL_TOKEN
    THEN [raised |-> TRUE, response |-> HTTPException(401, PyText(<<"Unauthorized">>))]
    ELSE [raised |-> FALSE]

\* AskResponse(answer=resp["answer"]): the answer must be a str.
AskResponse(answer) ==
    IF IsStr(answer)
    THEN Ok([status_code |-> 200, body |-> PyDict("answer" :> answer)])
    ELSE Raise("ValidationError", <<"1 validation error for AskResponse">>)

\* ask_agent, lines 93-100: the route runs agent.ask for every request.
ask_agent(x_internal_auth, query_, max) ==
    /\ ~http_request.pending
    /\ AskEntry(query_, max)
    /\ http_request' = [pending |-> TRUE, x_internal_auth |-> x_internal_auth,
                         query |-> query_, max_iterations |-> max]
    /\ UNCHANGED http_responses

\* ask_agent, lines 101-105: the answer, or status 500 with str(e).
Respond ==
    /\ http_request.pending
    /\ pc \in {"returned", "raised"}
    /\ LET sent == IF pc = "raised"
                   THEN HTTPException(500, PyText(fault.msg))
                   ELSE LET ask_response == AskResponse(result.answer) IN
                        IF ask_response.raised
                        THEN HTTPException(500, PyText(ask_response.msg))
                        ELSE ask_response.val
       IN http_responses' =
            Append(http_responses,
                   sent @@ [x_internal_auth |-> http_request.x_internal_auth])
    /\ http_request' = NoRequest
    /\ UNCHANGED <<usage_log, native_response, callers, overlapped, incomplete,
                   provider, file, conversation_history, pc, query, asks,
                   max_iterations, iteration, messages, tool_calls,
                   tool_calls_made, last_tool_result, n_calls, last_call,
                   response, last_dispatch, history_at_entry, result, fault>>

InitService ==
    /\ provider = "openai"
    /\ file \in Files
    /\ conversation_history = <<>>
    /\ pc = "idle"
    /\ query = ""
    /\ asks = 0
    /\ max_iterations = 0
    /\ iteration = 0
    /\ messages = <<>>
    /\ tool_calls = <<>>
    /\ tool_calls_made = <<>>
    /\ last_tool_result = PyNone
    /\ n_calls = 0
    /\ last_call = NoCall
    /\ response = NoResponse
    /\ last_dispatch = NoDispatch
    /\ history_at_entry = <<>>
    /\ result = NoResult
    /\ fault = NoFault
    /\ http_request = NoRequest
    /\ http_responses = <<>>
    /\ usage_log = <<>>
    /\ native_response = NoNative
    /\ callers = NoCallers
    /\ overlapped = FALSE
    /\ incomplete = FALSE

NextService ==
    \/ \E h \in Headers, q \in Queries(asks + 1), max \in IterationChoices :
            ask_agent(h, q, max)
    \/ \E msg \in NativeMessages(provider, n_calls + 1, TRUE) : Chat(msg)
    \/ DispatchTool
    \/ \E msg \in NativeMessages(provider, n_calls + 1, FALSE) : FinalChat(msg)
    \/ \E e \in BackendFaults : BackendFault(e)
    \/ Respond

SpecService == InitService /\ [][NextService]_vars

(***************************************************************************)
(* The tool registry on its own: _execute_tool run on an agent at rest,    *)
(* with any catalog tool, any arguments and any document file.             *)
(***************************************************************************)
\* A document with more projects than the largest limit, all holding "p".
DocMany ==
    PyDict("projects" :>
        PyList([i \in 1..(MaxLimit + 1) |->
                    PyDict("name" :> PyText(<<"p">>) @@ "summary" :> PyText(<<"x">>)
                           @@ "id" :> PyInt(i))]))

\* A document whose projects lack a summary: a null one and a missing one.
DocNulls ==
    PyDict("projects" :>
        PyList(<< Project(<<"a">>, <<"P", "B">>),
                  PyDict("name" :> PyText(<<"b">>) @@ "summary" :> PyNone),
                  PyDict("name" :> PyText(<<"p", "b">>)) >>))

FileMany == [exists |-> TRUE, content |-> json_dumps(DocMany)]
FileNulls == [exists |-> TRUE, content |-> json_dumps(DocNulls)]

ToolFiles == Files \cup {FileMany, FileNulls}

Keywords ==
    {PyNone, PyText(<<>>), PyText(<<"p">>), PyText(<<"P", "B">>),
     PyText(<<"n", "o", "n", "e">>), PyText(<<"z">>)}

Limits ==
    {PyNone, PyInt(0), PyInt(-3), PyInt(1), PyInt(2), PyInt(MaxLimit),
     PyInt(MaxLimit + 1), PyInt(1000), PyJson(PyInt(7)), PyText(<<"abc">>),
     PyList(<<PyInt(1)>>), PyInf, PyNaN}

\* The arguments a call of search_projects may carry.
SearchArguments ==
    { PyDict("keyword" :> k) : k \in Keywords }
    \cup { PyDict("keyword" :> k @@ "limit" :> l) : k \in Keywords, l \in Limits }
    \cup { PyDict("limit" :> PyInt(3)) }

\* The arguments a call of any tool may carry.
GenericArguments ==
    {EmptyDict, json_dumps(EmptyDict), PyDict("x" :> PyInt(1)), Malformed}

ToolInputs ==
    (get_tool_definitions \X GenericArguments)
    \cup ({"search_projects"} \X SearchArguments)

InitTools ==
    /\ provider = "ollama"
    /\ file \in ToolFiles
    /\ conversation_history = <<>>
    /\ pc = "idle"
    /\ query = ""
    /\ asks = 0
    /\ max_iterations = 0
    /\ iteration = 0
    /\ messages = <<>>
    /\ tool_calls = <<>>
    /\ tool_calls_made = <<>>
    /\ last_tool_result = PyNone
    /\ n_calls = 0
    /\ last_call = NoCall
    /\ response = NoResponse
    /\ last_dispatch = NoDispatch
    /\ history_at_entry = <<>>
    /\ result = NoResult
    /\ fault = NoFault
    /\ http_request = NoRequest
    /\ http_responses = <<>>
    /\ usage_log = <<>>
    /\ native_response = NoNative
    /\ callers = NoCallers
    /\ overlapped = FALSE
    /\ incomplete = FALSE

\* _execute_tool(tool_name, arguments), lines 329-348.
ExecuteToolCall(tool_name, arguments) ==
    /\ pc = "idle"
    /\ last_dispatch' = ExecuteTool(file, tool_name, arguments)
                            @@ [tool |-> tool_name, arguments |-> arguments]
    /\ UNCHANGED <<usage_log, native_response, callers, overlapped, incomplete,
                   provider, file, conversation_history, pc, query, asks,
                   max_iterations, iteration, messages, tool_calls,
                   tool_calls_made, last_tool_result, n_calls, last_call,
                   response, history_at_entry, result, fault, http_request,
                   http_responses>>

NextTools == \E input \in ToolInputs : ExecuteToolCall(input[1], input[2])

SpecTools == InitTools /\ [][NextTools]_vars

(***************************************************************************)
(* The adapter alone: _chat applied once to a native response.  The hosted *)
(* backend may fill the content of a message that has tool calls, may mix  *)
(* calls that are not function calls with function calls, and may report   *)
(* usage in full, in part or not at all.                                   *)
(***************************************************************************)
AdapterToolCalls ==
    NativeToolCalls("openai")
        \cup { EncodedAll(<<[AboutCall EXCEPT !.type = "custom"], SearchCall>>) }

HostedMessages ==
    { [role |-> "assistant", content |-> c] : c \in NativeContents }
    \cup { [role |-> "assistant", content |-> c, tool_calls |-> Stamp(l, 1)] :
                c \in NativeContents, l \in AdapterToolCalls }

NativeResponses(prov) ==
    IF prov = "openai"
    THEN { [message |-> m, usage |-> u] : m \in HostedMessages, u \in NativeUsages }
    ELSE { [message |-> m] : m \in NativeMessages(prov, 1, TRUE) }

InitChat ==
    /\ provider \in SupportedProviders
    /\ file = FileOk
    /\ conversation_history = <<>>
    /\ pc = "idle"
    /\ query = ""
    /\ asks = 0
    /\ max_iterations = 0
    /\ iteration = 0
    /\ messages = <<>>
    /\ tool_calls = <<>>
    /\ tool_calls_made = <<>>
    /\ last_tool_result = PyNone
    /\ n_calls = 0
    /\ last_call = NoCall
    /\ response = NoResponse
    /\ last_dispatch = NoDispatch
    /\ history_at_entry = <<>>
    /\ result = NoResult
    /\ fault = NoFault
    /\ http_request = NoRequest
    /\ http_responses = <<>>
    /\ usage_log = <<>>
    /\ native_response \in NativeResponses(provider)
    /\ callers = NoCallers
    /\ overlapped = FALSE
    /\ incomplete = FALSE

\* _chat(messages, tools), lines 71-142, on the response the backend gave.
ChatCall ==
    /\ n_calls = 0
    /\ n_calls' = 1
    /\ response' = _chat(provider, native_response)
    /\ UNCHANGED <<usage_log, native_response, callers, overlapped, incomplete,
                   provider, file, conversation_history, pc, query, asks,
                   max_iterations, iteration, messages, tool_calls,
                   tool_calls_made, last_tool_result, last_call, last_dispatch,
                   history_at_entry, result, fault, http_request,
                   http_responses>>

NextChat == ChatCall

SpecChat == InitChat /\ [][NextChat]_vars

(***************************************************************************)
(* Two callers on one agent, as the threads that serve the sync route of   *)
(* fastapi_app.py on the module's one agent.  Nothing in ask or in         *)
(* reset_conversation takes a lock, so the callers interleave between any  *)
(* two accesses of self.conversation_history: the append of the user turn, *)
(* the read that builds the transcript, the append of the assistant turn   *)
(* and the rebinding of reset_conversation.  What ask does between reading *)
(* the history and appending the answer works on its locals only and is    *)
(* one step here.                                                          *)
(***************************************************************************)
Callers == {1, 2}

\* Every ask of every caller has its own query text.
QueriesOf(c, k) ==
    IF c = 1 THEN Queries(k)
    ELSE { CASE k = 1 -> "r1" [] k = 2 -> "r2" [] OTHER -> "r3" }

\* The backend's final answer to the query q.
AnswerTo(q) == PyText(<<"answer to ", q>>)

IdleCaller == [pc |-> "idle", query |-> "", asks |-> 0, messages |-> <<>>]

InProgress(c) == callers[c].pc \in {"entered", "calling"}
OthersInProgress(c) == \E d \in Callers \ {c} : InProgress(d)

InitConcurrent ==
    /\ provider = "openai"
    /\ file = FileOk
    /\ conversation_history = <<>>
    /\ pc = "idle"
    /\ query = ""
    /\ asks = 0
    /\ max_iterations = 0
    /\ iteration = 0
    /\ messages = <<>>
    /\ tool_calls = <<>>
    /\ tool_calls_made = <<>>
    /\ last_tool_result = PyNone
    /\ n_calls = 0
    /\ last_call = NoCall
    /\ response = NoResponse
    /\ last_dispatch = NoDispatch
    /\ history_at_entry = <<>>
    /\ result = NoResult
    /\ fault = NoFault
    /\ http_request = NoRequest
    /\ http_responses = <<>>
    /\ usage_log = <<>>
    /\ native_response = NoNative
    /\ callers = [c \in Callers |-> IdleCaller]
    /\ overlapped = FALSE
    /\ incomplete = FALSE

\* ask, line 153, run by caller c: the user turn is appended.
AppendUserTurn(c, query_) ==
    /\ callers[c].pc \in {"idle", "returned", "raised"}
    /\ callers[c].asks < MaxAsks
    /\ conversation_history' = Append(conversation_history, UserTurn(query_))
    /\ callers' = [callers EXCEPT ![c] =
                        [pc |-> "entered", query |-> query_,
                         asks |-> callers[c].asks + 1, messages |-> <<>>]]
    /\ overlapped' = (overlapped \/ OthersInProgress(c))
    /\ UNCHANGED <<usage_log, native_response, incomplete,
                   provider, file, pc, query, asks, max_iterations, iteration,
                   messages, tool_calls, tool_calls_made, last_tool_result,
                   n_calls, last_call, response, last_dispatch,
                   history_at_entry, result, fault, http_request,
                   http_responses>>

\* ask, lines 155-158, run by caller c: the transcript is built from the
\* history as it is now.
BuildTranscript(c) ==
    /\ callers[c].pc = "entered"
    /\ callers' = [callers EXCEPT ![c].pc = "calling",
                                  ![c].messages = Transcript(conversation_history)]
    /\ UNCHANGED <<usage_log, native_response, overlapped, incomplete,
                   provider, file, conversation_history, pc, query, asks,
                   max_iterations, iteration, messages, tool_calls,
                   tool_calls_made, last_tool_result, n_calls, last_call,
                   response, last_dispatch, history_at_entry, result, fault,
                   http_request, http_responses>>

\* ask, lines 171-284 and 286-327, run by caller c: the model calls and the
\* tool dispatches end with the answer to the caller's query, which is
\* appended to the history as it is now.
PersistAnswer(c) ==
    /\ callers[c].pc = "calling"
    /\ conversation_history' =
            Persist(conversation_history, AnswerTo(callers[c].query))
    /\ callers' = [callers EXCEPT ![c].pc = "returned"]
    /\ UNCHANGED <<usage_log, native_response, overlapped, incomplete,
                   provider, file, pc, query, asks, max_iterations, iteration,
                   messages, tool_calls, tool_calls_made, last_tool_result,
                   n_calls, last_call, response, last_dispatch,
                   history_at_entry, result, fault, http_request,
                   http_responses>>

\* ask, lines 171 and 287, run by caller c: a model call raises and the
\* exception leaves ask.
RaiseFromAsk(c) ==
    /\ callers[c].pc = "calling"
    /\ callers' = [callers EXCEPT ![c].pc = OnFault("calling")]
    /\ incomplete' = TRUE
    /\ UNCHANGED <<usage_log, native_response, overlapped,
                   provider, file, conversation_history, pc, query, asks,
                   max_iterations, iteration, messages, tool_calls,
                   tool_calls_made, last_tool_result, n_calls, last_call,
                   response, last_dispatch, history_at_entry, result, fault,
                   http_request, http_responses>>

\* reset_conversation, lines 350-352, run by caller c.  When no ask is in
\* progress the agent is as new: no earlier call can show in the history.
ResetBy(c) ==
    /\ callers[c].pc \in {"idle", "returned", "raised"}
    /\ conversation_history' = <<>>
    /\ callers' = [callers EXCEPT ![c].pc = "idle"]
    /\ overlapped' = OthersInProgress(c)
    /\ incomplete' = (incomplete /\ OthersInProgress(c))
    /\ UNCHANGED <<usage_log, native_response,
                   provider, file, pc, query, asks, max_iterations, iteration,
                   messages, tool_calls, tool_calls_made, last_tool_result,
                   n_calls, last_call, response, last_dispatch,
                   history_at_entry, result, fault, http_request,
                   http_responses>>

NextConcurrent ==
    \E c \in Callers :
        \/ \E q \in QueriesOf(c, callers[c].asks + 1) : AppendUserTurn(c, q)
        \/ BuildTranscript(c)
        \/ PersistAnswer(c)
        \/ RaiseFromAsk(c)
        \/ ResetBy(c)

SpecConcurrent == InitConcurrent /\ [][NextConcurrent]_vars

(***************************************************************************)
(* Properties of ask.                                                      *)
(***************************************************************************)
Done == pc = "returned" /\ "note" \notin DOMAIN result
Exhausted == pc = "returned" /\ "note" \in DOMAIN result
Running == pc \in {"chat", "tools", "final"}

IsRequest(m) == m.role = "assistant" /\ "tool_calls" \in DOMAIN m
HasToolCalls(r) == Get(r.message, "tool_calls", <<>>) # <<>>

\* C1: every ask makes at most max_iterations + 1 model-backend calls,
\* whatever integer max_iterations the caller passes.
C1_AtMostMaxPlusOneCalls == n_calls <= max_iterations + 1

\* Every tool-call request of the transcript ms is directly followed by the
\* tool message that carries its id.
Paired(ms) ==
    \A i \in 1..Len(ms) :
        IsRequest(ms[i]) =>
            /\ i < Len(ms)
            /\ ms[i + 1].role = "tool"
            /\ ms[i + 1].tool_call_id = ms[i].tool_calls[1].id

\* C2: at every model call of ask, the forced final one included, each
\* tool-call request in the transcript the backend receives is immediately
\* followed by the tool message with the same call id.
C2_NoDanglingRequest == last_call.n > 0 => Paired(last_call.messages)

C2_Witness ==
    /\ last_call.n > 0
    /\ ~last_call.tools
    /\ provider = "openai"
    /\ \E i \in 1..Len(last_call.messages) : IsRequest(last_call.messages[i])

Roles(h, r) == {i \in 1..Len(h) : h[i].role = r}

\* C3: when ask has returned (Done or Exhausted) the persisted history is the
\* history of before the call plus one user turn carrying the query plus one
\* assistant turn, and holds only user and assistant turns.
C3_HistoryGrowsByOneExchange ==
    pc = "returned" =>
        /\ Len(conversation_history) = Len(history_at_entry) + 2
        /\ SubSeq(conversation_history, 1, Len(history_at_entry)) = history_at_entry
        /\ conversation_history[Len(history_at_entry) + 1] = UserTurn(query)
        /\ conversation_history[Len(history_at_entry) + 2].role = "assistant"
        /\ Cardinality(Roles(conversation_history, "user"))
                = Cardinality(Roles(history_at_entry, "user")) + 1
        /\ Cardinality(Roles(conversation_history, "assistant"))
                = Cardinality(Roles(history_at_entry, "assistant")) + 1
        /\ \A i \in 1..Len(conversation_history) :
                conversation_history[i].role \in {"user", "assistant"}

C3_Witness ==
    /\ Exhausted
    /\ history_at_entry # <<>>
    /\ tool_calls_made # <<>>

\* C4: the loop goes on after a response only if that response requested tool
\* calls; when the k-th response (1 <= k <= max_iterations) is the first one
\* without tool calls, ask returns in Done after exactly k model calls, with
\* that response's content as the answer and as the assistant turn,
\* iterations = k and no exhaustion note, also when no tool was called (k = 1).
C4_FirstPlainResponseIsDone ==
    /\ (Running /\ n_calls > 0) => HasToolCalls(response)
    /\ (pc = "returned" /\ last_call.tools) =>
            /\ ~HasToolCalls(response)
            /\ Done
            /\ 1 <= n_calls /\ n_calls <= max_iterations
            /\ n_calls = iteration + 1
            /\ result.iterations = n_calls
            /\ result.answer = Get(response.message, "content", PyText(<<>>))
            /\ conversation_history[Len(conversation_history)]
                    = AssistantTurn(result.answer)
            /\ (n_calls = 1 => result.tool_calls_made = <<>>)

C4_Witness ==
    /\ Done
    /\ n_calls = 2
    /\ result.answer = Answer

\* C5: ask is at a loop call only while iterations are left and at the
\* forced final call only when the loop is used up, one model call per
\* iteration so far.  When it returns exhausted after the loop ran
\* max_iterations iterations (each of them requested tool calls), it has made
\* exactly max_iterations + 1 model calls, the last one without the tool
\* catalog and with the instruction message appended after the whole
\* transcript (all tool results included), and the result carries the note.
C5_ExhaustionAfterMaxIterations ==
    /\ pc = "chat" => (n_calls = iteration /\ iteration < max_iterations)
    /\ pc = "final" => (n_calls = iteration /\ iteration >= max_iterations)
    /\ (Exhausted /\ iteration = max_iterations) =>
            /\ n_calls = max_iterations + 1
            /\ last_call.n = max_iterations + 1
            /\ ~last_call.tools
            /\ last_call.messages
                    = Append(messages, [role |-> "system", content |-> FinalInstruction])
            /\ Len(tool_calls_made) >= max_iterations
            /\ Len(messages) = Len(history_at_entry) + 2 + 2 * Len(tool_calls_made)
            /\ result.note = Note
            /\ result.iterations = max_iterations

C5_Witness ==
    /\ Exhausted
    /\ max_iterations = 2
    /\ n_calls = 3

\* The forced final response carries no content: the key is absent, or its
\* value is None or the empty string.
NoContent(r) == ~Truthy(Get(r.message, "content", PyNone))

\* C6: on exhaustion (of a budget max_iterations >= 0), when the forced
\* final response has no content, the answer returned and persisted is the
\* static fallback string.
C6_FallbackWhenNoContent ==
    (Exhausted /\ max_iterations >= 0 /\ NoContent(response)) =>
        /\ result.answer = Fallback
        /\ conversation_history[Len(conversation_history)] = AssistantTurn(Fallback)

(***************************************************************************)
(* Properties of tool dispatch inside ask.                                 *)
(***************************************************************************)
Dispatched == last_dispatch.tool # ""

IsErrorPayload(v) ==
    /\ v.kind = "json"
    /\ v.val.kind = "dict"
    /\ DOMAIN v.val.val = {"error"}

\* The argument string of the dispatched call is not a JSON document.
MalformedArgs(d) == IsStr(d.arguments) /\ json_loads(d.arguments).raised

\* The dispatched call is a tool-dispatch fault: its name is not a tool of the
\* catalog, its arguments cannot be parsed, or calling the tool with them
\* raises (they do not fit its parameters, or its body raises).
Fault(d) ==
    \/ d.tool \notin get_tool_definitions
    \/ MalformedArgs(d)
    \/ CallAttribute(file, d.tool,
                     IF IsStr(d.arguments) THEN json_loads(d.arguments).val
                     ELSE d.arguments).raised

LastMessage == messages[Len(messages)]

\* C7: for every dispatched tool call that is a tool-dispatch fault,
\* _execute_tool returns an {"error": ...} payload, that payload is the
\* content of the call's tool message in the transcript, and ask goes on:
\* it is dispatching the rest of the response or is at a later model call.
C7_DispatchFaultYieldsErrorPayload ==
    (Dispatched /\ Fault(last_dispatch)) =>
        /\ IsErrorPayload(last_dispatch.result)
        /\ LastMessage.role = "tool"
        /\ LastMessage.content = last_dispatch.result
        /\ (pc = "tools" => tool_calls # <<>>)

\* C8: a tool call whose argument string is malformed JSON still has its
\* registry entry invoked, with the raw-string fallback as its arguments.
C8_MalformedArgsStillInvoke ==
    (Dispatched /\ MalformedArgs(last_dispatch)) =>
        /\ last_dispatch.invoked
        /\ last_dispatch.args = PyDict("raw_arguments" :> last_dispatch.arguments)

\* C8 as amended: a tool call whose argument string is malformed JSON invokes
\* no registry entry; its result is the "Error executing <name>" payload of
\* the parse failure.  The turn goes on: the request and that result are the
\* next two messages of the transcript, the request carrying the raw-string
\* fallback {"raw_arguments": s} under the local provider and the unchanged
\* string s under the hosted provider.
C8_MalformedArgsErrorPayload ==
    (Dispatched /\ MalformedArgs(last_dispatch)) =>
        /\ ~last_dispatch.invoked
        /\ last_dispatch.result
                = ErrorPayload(<<"Error executing ", last_dispatch.tool, ": ">>
                               \o json_loads(last_dispatch.arguments).msg)
        /\ Len(messages) >= 2
        /\ LastMessage.role = "tool"
        /\ LastMessage.content = last_dispatch.result
        /\ LET request == messages[Len(messages) - 1] IN
            /\ IsRequest(request)
            /\ request.tool_calls[1].id = LastMessage.tool_call_id
            /\ request.tool_calls[1].function.name = last_dispatch.tool
            /\ request.tool_calls[1].function.arguments
                    = IF provider = "openai" THEN last_dispatch.arguments
                      ELSE PyDict("raw_arguments" :> last_dispatch.arguments)

C8_Witness ==
    /\ Dispatched
    /\ MalformedArgs(last_dispatch)
    /\ provider = "ollama"
    /\ pc = "tools"

\* C9: every descriptor name resolves to a method of the tools object, and a
\* dispatch of any other name invokes nothing and returns the tool-not-found
\* payload.
C9_DispatchOnlyCatalogTools ==
    /\ get_tool_definitions \subseteq Methods
    /\ (Dispatched /\ last_dispatch.tool \notin get_tool_definitions) =>
            /\ ~last_dispatch.invoked
            /\ last_dispatch.result
                    = ErrorPayload(<<"Tool ", last_dispatch.tool, " not found">>)

\* C10: the content of every tool message of the transcript is a str that
\* holds a serialized structured payload.
C10_ToolResultIsSerializedText ==
    \A i \in 1..Len(messages) :
        messages[i].role = "tool" => messages[i].content.kind = "json"

(***************************************************************************)
(* Properties of the persisted history and of the transcript.              *)
(***************************************************************************)
SystemTurn == [role |-> "system", content |-> SystemPrompt]

Requests(ms) == SelectSeq(ms, IsRequest)
TraceEntry(tc) == [tool |-> tc.function.name, args |-> tc.function.arguments]
Requested == Get(response.message, "tool_calls", <<>>)

\* C23: the tool calls of one model response are dispatched one at a time
\* in the order received (the calls still to dispatch are a suffix of the
\* response's list, the dispatched ones are the latest entries of the trace
\* and the latest request/result pairs of the transcript, in that order);
\* no model call is made while a tool call is pending; the trace lists the
\* calls in the order of the transcript's requests and is returned as is.
C23_DispatchInOrder ==
    LET req == Requested
        done == Len(req) - Len(tool_calls)
        made == Len(tool_calls_made)
        len == Len(messages)
    IN
    /\ pc # "tools" => tool_calls = <<>>
    /\ pc = "tools" => tool_calls # <<>>
    /\ n_calls > 0 =>
        /\ done \in 0..Len(req)
        /\ tool_calls = SubSeq(req, done + 1, Len(req))
        /\ made >= done
        /\ len >= 2 * done
        /\ \A j \in 1..done :
            /\ tool_calls_made[made - done + j] = TraceEntry(req[j])
            /\ IsRequest(messages[len - 2 * done + 2 * j - 1])
            /\ messages[len - 2 * done + 2 * j - 1].tool_calls[1].function.name
                    = req[j].function.name
            /\ messages[len - 2 * done + 2 * j].role = "tool"
            /\ messages[len - 2 * done + 2 * j].name = req[j].function.name
        /\ pc \in {"chat", "final"} => done = Len(req) /\ req # <<>>
    /\ Len(Requests(messages)) = Len(tool_calls_made)
    /\ \A j \in 1..Len(tool_calls_made) :
            Requests(messages)[j].tool_calls[1].function.name
                = tool_calls_made[j].tool
    /\ pc = "returned" => result.tool_calls_made = tool_calls_made

C23_Witness ==
    /\ pc = "final"
    /\ iteration = 2
    /\ Len(Requested) = 2
    /\ Len(tool_calls_made) = 4
    /\ tool_calls_made[1] # tool_calls_made[2]
    /\ tool_calls_made[3] # tool_calls_made[4]

IsPlainTurn(m) ==
    /\ DOMAIN m = {"role", "content"}
    /\ m.role \in {"user", "assistant"}

\* C24: from the append of the user turn to the append of the assistant
\* turn the persisted history is the history at entry plus the user turn;
\* the history holds only plain user and assistant turns, so that in the
\* transcript of every model call the persisted part carries no tool-call
\* request, no tool result and no final instruction: those sit behind the
\* new user turn and are no more than this ask's own exchanges.
C24_HistoryUntouchedDuringAsk ==
    /\ (Running \/ pc = "raised") =>
            conversation_history = Append(history_at_entry, UserTurn(query))
    /\ pc = "returned" =>
            /\ Len(conversation_history) = Len(history_at_entry) + 2
            /\ SubSeq(conversation_history, 1, Len(history_at_entry) + 1)
                    = Append(history_at_entry, UserTurn(query))
    /\ \A i \in 1..Len(conversation_history) :
            IsPlainTurn(conversation_history[i])
    /\ last_call.n > 0 =>
            LET sent == last_call.messages
                own == Len(history_at_entry) + 2
            IN /\ Len(sent) >= own
               /\ \A i \in 2..own : IsPlainTurn(sent[i])
               /\ Len(sent) = own + 2 * Len(Requests(sent))
                                  + (IF last_call.tools THEN 0 ELSE 1)
               /\ Len(Requests(sent)) <= Len(tool_calls_made)

C24_Witness ==
    /\ asks = 2
    /\ Len(history_at_entry) = 2
    /\ pc = "returned"
    /\ last_call.n = 2
    /\ Len(tool_calls_made) = 2
    /\ ~last_call.tools

InitialTranscript == <<SystemTurn>> \o history_at_entry \o <<UserTurn(query)>>
\* What the latest model call was sent, without the final instruction.
SentTranscript ==
    IF last_call.tools THEN last_call.messages
    ELSE SubSeq(last_call.messages, 1, Len(last_call.messages) - 1)
\* The number of tool calls dispatched before the latest model call.
DispatchedBeforeCall ==
    CASE pc = "tools" ->
            Len(tool_calls_made) - (Len(Requested) - Len(tool_calls))
      [] pc \in {"chat", "final"} -> Len(tool_calls_made) - Len(Requested)
      [] OTHER -> Len(tool_calls_made)

Alternates(h) ==
    \A i \in 1..Len(h) :
        h[i].role = (IF i % 2 = 1 THEN "user" ELSE "assistant")

\* C27: after any sequence of ask and reset_conversation calls, faulted
\* asks included, the persisted history alternates user and assistant
\* turns starting with a user turn, and its length is even whenever no ask
\* is in progress.
C27_HistoryAlternates ==
    /\ Alternates(conversation_history)
    /\ ~Running => Len(conversation_history) % 2 = 0

\* C28: within one ask the call ids of the tool-call request messages of
\* the transcript are pairwise distinct, also when they are the loop's
\* fallback id.
C28_RequestIdsDistinct ==
    LET reqs == Requests(messages) IN
    \A i, j \in 1..Len(reqs) :
        i # j => reqs[i].tool_calls[1].id # reqs[j].tool_calls[1].id

(***************************************************************************)
(* Properties of concurrent callers.                                       *)
(***************************************************************************)
\* h is a sequence of user turns each directly followed by its own answer.
OwnAnswers(h) ==
    /\ Len(h) % 2 = 0
    /\ \A i \in 1..Len(h) :
            i % 2 = 1 =>
                /\ h[i].role = "user"
                /\ h[i + 1] = AssistantTurn(AnswerTo(h[i].content.val[1]))

Quiet == \A c \in Callers : ~InProgress(c)

\* C22: when the calls on the agent were serialised (no ask or reset ran
\* while another ask was in progress) and all of them are completed, the
\* persisted history is a sequence of user turns each directly followed by
\* its own answer; without serialisation there is an interleaving of asks,
\* and of an ask with a reset, after which it is not (the witness).
C22_SerialisedCallsPairTurns ==
    (DOMAIN callers = Callers /\ Quiet /\ ~overlapped /\ ~incomplete) =>
        OwnAnswers(conversation_history)

\* Caller 2 reset the history while caller 1's first ask was in progress,
\* then caller 2's ask and caller 1's second ask overlapped; all calls are
\* completed.
C22_Witness ==
    /\ DOMAIN callers = Callers
    /\ Quiet
    /\ overlapped
    /\ ~incomplete
    /\ conversation_history =
            <<AssistantTurn(AnswerTo("q1")),
              UserTurn("r1"), UserTurn("q2"),
              AssistantTurn(AnswerTo("r1")), AssistantTurn(AnswerTo("q2"))>>
    /\ ~OwnAnswers(conversation_history)

(***************************************************************************)
(* Properties of the adapter.                                              *)
(***************************************************************************)
Adapted == provider = "openai" /\ n_calls = 1 /\ native_response # NoNative
NativeCalls == Get(native_response.message, "tool_calls", <<>>)
CanonicalCalls == Get(response.message, "tool_calls", <<>>)

\* The part of C26 about content and usage: null content becomes the empty
\* string, other content is kept, and the usage counters are remapped.
ContentAndUsageReshaped ==
    LET native == native_response.message
        usage == native_response.usage
    IN
    /\ response.message.role = native.role
    /\ response.message.content =
            (IF native.content.kind = "none" THEN PyText(<<>>) ELSE native.content)
    /\ IF usage.kind = "none" THEN response.usage.kind = "none"
       ELSE /\ response.usage.kind = "dict"
            /\ DOMAIN response.usage.val =
                    {"input_tokens", "output_tokens", "total_tokens"}
            /\ response.usage.val.input_tokens = GetAttr(usage, "prompt_tokens")
            /\ response.usage.val.output_tokens = GetAttr(usage, "completion_tokens")
            /\ response.usage.val.total_tokens = GetAttr(usage, "total_tokens")

\* C26: for every hosted response the canonical message has null content
\* replaced by the empty string, carries every tool call of the native
\* response in the same order with the same id, name and arguments, has the
\* usage counters remapped, and has tool calls whenever the native message
\* has.
C26_CanonicalMessageFaithful ==
    Adapted =>
        /\ ContentAndUsageReshaped
        /\ Len(CanonicalCalls) = Len(NativeCalls)
        /\ \A i \in 1..Len(NativeCalls) :
            i <= Len(CanonicalCalls) =>
                /\ CanonicalCalls[i].id = NativeCalls[i].id
                /\ CanonicalCalls[i].function.name = NativeCalls[i].function.name
                /\ CanonicalCalls[i].function.arguments
                        = NativeCalls[i].function.arguments
        /\ NativeCalls # <<>> => "tool_calls" \in DOMAIN response.message

(***************************************************************************)
(* Properties of faults and of the provider.                               *)
(***************************************************************************)
\* A backend call of the latest ask has failed.
BackendFailed == fault.raised /\ provider \in SupportedProviders

\* C16: once a backend call of an ask has raised (in the loop or at the
\* forced final call), the ask is over with that exception and is not
\* inside its loop any more: the faulting call is its last model call,
\* nothing was dispatched after it, no answer is returned, and the history
\* holds the user turn but no assistant turn.
C16_BackendFaultLeavesAsk ==
    /\ BackendFailed => pc \in {"raised", "idle"}
    /\ (BackendFailed /\ pc = "raised") =>
        /\ [raised |-> TRUE, exc |-> fault.exc, msg |-> fault.msg] \in BackendFaults
        /\ n_calls = fault.call
        /\ last_call.n = fault.call
        /\ last_call.messages =
                IF last_call.tools THEN messages
                ELSE Append(messages, [role |-> "system", content |-> FinalInstruction])
        /\ Len(messages) = Len(history_at_entry) + 2 + 2 * Len(tool_calls_made)
        /\ tool_calls = <<>>
        /\ (fault.call > 1 => HasToolCalls(response))
        /\ result = NoResult
        /\ conversation_history = Append(history_at_entry, UserTurn(query))

C16_Witness ==
    /\ BackendFailed
    /\ pc = "raised"
    /\ fault.call = 2
    /\ last_call.tools
    /\ tool_calls_made # <<>>

\* C17: an agent configured with a provider other than the two supported
\* ones never accepts an ask, and its conversation state is never changed.
C17_UnsupportedProviderNeverAsks ==
    provider \notin SupportedProviders =>
        /\ pc = "idle"
        /\ asks = 0
        /\ conversation_history = <<>>

\* C18: in every assistant tool-call message of the transcript the arguments
\* are a JSON-encoded string under the hosted provider (openai) and a native
\* structured value, never a string, under the local provider (ollama).
C18_ArgumentEncoding ==
    \A i \in 1..Len(messages) :
        IsRequest(messages[i]) =>
            LET arguments == messages[i].tool_calls[1].function.arguments IN
            /\ provider = "openai" => arguments.kind = "json"
            /\ provider = "ollama" => ~IsStr(arguments)

(***************************************************************************)
(* Properties of the service boundary.                                     *)
(***************************************************************************)
\* The header is missing or is not the configured token.
Unauthorized(x_internal_auth) == verify_internal_auth(x_internal_auth).raised

\* C19: a request whose shared-secret header is missing or differs from the
\* configured token is rejected: no ask runs for it, so no model call and no
\* change of the conversation, and its response is the 401 rejection.
C19_UnauthorizedRejected ==
    /\ (http_request.pending /\ Unauthorized(http_request.x_internal_auth)) =>
            /\ ~Running
            /\ pc \notin {"returned", "raised"}
    /\ \A i \in 1..Len(http_responses) :
            Unauthorized(http_responses[i].x_internal_auth) =>
                http_responses[i].status_code = 401

\* The i-th response answers a request that carried the token and whose ask
\* did not produce an answer.
FailedResponse(i) ==
    /\ ~Unauthorized(http_responses[i].x_internal_auth)
    /\ http_responses[i].status_code # 200

\* C20: every request whose ask raised is answered with a non-success
\* status, and any two such responses have the same body whatever the two
\* faults were.
C20_GenericFaultBody ==
    /\ (pc = "raised" /\ ~http_request.pending /\ http_responses # <<>>) =>
            http_responses[Len(http_responses)].status_code >= 400
    /\ \A i, j \in 1..Len(http_responses) :
            (FailedResponse(i) /\ FailedResponse(j))
                => http_responses[i].body = http_responses[j].body

(***************************************************************************)
(* Properties of the tool registry.                                        *)
(***************************************************************************)
NotFoundPayload ==
    json_dumps(PyDict("error" :>
        PyText(<<"Portfolio data file not found: ", DataPath>>)))

\* The dispatched call names a catalog tool.
CatalogCall == Dispatched /\ last_dispatch.tool \in get_tool_definitions

\* C11: when the document file is absent, every call of a catalog tool,
\* whatever structured arguments it is given (a missing keyword of
\* search_projects included), returns the payload
\* {"error": "Portfolio data file not found: <path>"}.
C11_AbsentFileSamePayload ==
    (CatalogCall /\ ~MalformedArgs(last_dispatch) /\ ~file.exists) =>
        last_dispatch.result = NotFoundPayload

\* The structured arguments fit the parameters of the tool.
Fits(name, args) ==
    /\ args.kind = "dict"
    /\ DOMAIN args.val \subseteq Required(name) \cup Optional(name)
    /\ Required(name) \subseteq DOMAIN args.val

\* The document file is missing, unparseable or not a keyed mapping.
Unusable(f) ==
    \/ ~f.exists
    \/ json_loads(f.content).raised
    \/ json_loads(f.content).val.kind # "dict"

\* C12: with a missing or corrupt document file, a catalog tool called with
\* arguments that fit its parameters raises nothing to its caller and
\* returns an {"error": ...} payload.
C12_ToolsNeverRaise ==
    (/\ CatalogCall
     /\ last_dispatch.invoked
     /\ Fits(last_dispatch.tool, last_dispatch.args)
     /\ Unusable(file)) =>
        /\ ~last_dispatch.outcome.raised
        /\ IsErrorPayload(last_dispatch.outcome.val)

\* The dispatched call is a search that reaches the loop over the projects:
\* the document is a keyed mapping without an "error" key, the arguments fit
\* and the keyword is a non-empty string.
Searching ==
    /\ Dispatched
    /\ last_dispatch.tool = "search_projects"
    /\ last_dispatch.invoked
    /\ Fits("search_projects", last_dispatch.args)
    /\ ~Unusable(file)
    /\ "error" \notin DOMAIN json_loads(file.content).val.val
    /\ last_dispatch.args.val["keyword"].kind = "text"
    /\ last_dispatch.args.val["keyword"].val # <<>>

RequestedLimit == Arg(last_dispatch.args.val, "limit", PyNone)
SearchedProjects == json_loads(file.content).val.val["projects"].val
Returned == last_dispatch.result.val

\* A requested limit is a number when it is an integer, the decimal text of
\* one, or infinity.
NumberOf(limit) ==
    CASE limit.kind = "int" -> limit.val
      [] limit.kind = "json" /\ limit.val.kind = "int" -> limit.val.val
      [] limit.kind = "float" /\ limit.val = "inf" -> MaxLimit + 1
      [] OTHER -> 0

\* The effective limit the requested one stands for: the default when it is
\* omitted, null, not a number or <= 0, and min(limit, 50) otherwise.
ExpectedLimit(limit) ==
    IF NumberOf(limit) <= 0 THEN DefaultLimit ELSE Min(NumberOf(limit), MaxLimit)

\* C13: for every requested limit, a search returns a list of exactly
\* min(effective limit, number of matching projects) matches, where the
\* effective limit is 10 for a limit that is omitted, null, not a number or
\* <= 0 and min(limit, 50) otherwise; the list never exceeds 50 matches.
C13_EffectiveLimit ==
    Searching =>
        /\ ~last_dispatch.outcome.raised
        /\ Returned.kind = "list"
        /\ Len(Returned.val) <= MaxLimit
        /\ Len(Returned.val) =
                Min(ExpectedLimit(RequestedLimit),
                    Len(Matches(SearchedProjects,
                                Lower(last_dispatch.args.val["keyword"].val),
                                Len(SearchedProjects))))

\* The text of a project's field: empty when the field is missing or null.
FieldText(project, key) ==
    IF key \in DOMAIN project.val /\ project.val[key].kind = "text"
    THEN project.val[key].val
    ELSE <<>>

\* The name-and-summary text of the project contains the keyword, letter
\* case ignored.
Contains(project, keyword) ==
    IsSubstring(Lower(keyword),
                Lower(FieldText(project, "name") \o <<" ">>
                      \o FieldText(project, "summary")))

\* C14: for every document, non-empty keyword and limit, a search returns
\* exactly the first (effective limit) of the projects whose name-and-summary
\* text contains the keyword case-insensitively, in document order.
C14_FirstMatchesInOrder ==
    (Searching /\ ~last_dispatch.outcome.raised) =>
        LET keyword == last_dispatch.args.val["keyword"].val
            Test(project) == Contains(project, keyword)
            matching == SelectSeq(SearchedProjects, Test)
        IN Returned =
                PyList(SubSeq(matching, 1,
                              Min(ExpectedLimit(RequestedLimit), Len(matching))))

\* The document file holds a JSON document.
Loadable(f) == f.exists /\ ~json_loads(f.content).raised

\* C15: with a loadable document, search_projects called with an empty
\* keyword, or with arguments that carry no keyword, returns an
\* {"error": ...} payload and never a list of matches.
C15_NoKeywordIsError ==
    (/\ Dispatched
     /\ last_dispatch.tool = "search_projects"
     /\ Loadable(file)
     /\ last_dispatch.arguments.kind = "dict"
     /\ \/ "keyword" \notin DOMAIN last_dispatch.arguments.val
        \/ last_dispatch.arguments.val["keyword"] = PyText(<<>>)) =>
        /\ IsErrorPayload(last_dispatch.result)
        /\ last_dispatch.result.val.kind # "list"

C15_Witness ==
    /\ file = FileOk
    /\ last_dispatch.tool = "search_projects"
    /\ last_dispatch.arguments =
            PyDict("keyword" :> PyText(<<>>) @@ "limit" :> PyInt(2))
    /\ last_dispatch.result = ErrorPayload(<<"Keyword is required.">>)

====
